---- MODULE Spec2Model ----
(***************************************************************************)
(* A model of the Gemini / Vertex AI request adapter (gemini_app.py,       *)
(* class GeminiVertexAI) and of the dashboard handler that stages uploaded *)
(* images for it (streamlit_app.py, main).                                 *)
(*                                                                         *)
(* The remote SDK is an opaque collaborator: every call the adapter makes  *)
(* to it is recorded in `sent`, and its outcome (a reply, an exception, a  *)
(* reply whose text cannot be extracted) is a nondeterministic input of    *)
(* the action that makes the call.  Python strings are TLA+ strings, so    *)
(* that prefixes, paths and extensions are computed, not assumed.          *)
(***************************************************************************)
EXTENDS Integers, Sequences, FiniteSets, TLC

VARIABLES
    model,      \* self.model: the active remote model handle
    fs,         \* the local filesystem: path -> content
    call,       \* the last operation invoked: [op, arg, kwargs]
    selected,   \* the identifier the last set_model that returned was given
    sent,       \* the SDK requests issued by the last operation, in order
    replies,    \* what the SDK did with each request of sent: [kind, text]
    result,     \* how the last operation was left: [kind, type, value]
    warnings,   \* the warning lines printed by the last operation, in order
    staged,     \* the temporary files the last dashboard handler created
    program,    \* which caller runs: "api", "cli" or "dashboard"
    session_state,  \* st.session_state of the dashboard session
    cli,        \* gemini_app.main: the menu option it is in, its messages list
    threads     \* two dashboard sessions inside their Analyze Images handlers

\* The state of the callers around the adapter
frontend == <<program, session_state, cli, threads>>

vars == <<model, selected, fs, call, sent, replies, result, warnings, staged, program, session_state, cli, threads>>

\* Between two operations: the caller's loop waits for the next command
NoCall == [op |-> "idle", arg |-> "", kwargs |-> <<>>]
Idle == call = NoCall

-----------------------------------------------------------------------------
(* Bounds of the model *)

MaxImages == 3      \* longest image_paths list
MaxUploads == 2     \* longest uploaded_files list
MaxHistory == 3     \* longest chat history

-----------------------------------------------------------------------------
(* Python values *)

None == [kind |-> "return", type |-> "NoneType", value |-> "None"]
Return(s) == [kind |-> "return", type |-> "str", value |-> s]
Raise(t, s) == [kind |-> "raise", type |-> t, value |-> s]

\* dict.get(key, default)
Get(d, key, default) == IF key \in DOMAIN d THEN d[key] ELSE default

\* str.startswith
StartsWith(s, prefix) ==
    /\ Len(s) >= Len(prefix)
    /\ SubSeq(s, 1, Len(prefix)) = prefix

\* str.endswith
EndsWith(s, suffix) ==
    /\ Len(s) >= Len(suffix)
    /\ SubSeq(s, Len(s) - Len(suffix) + 1, Len(s)) = suffix

\* All sequences over S of length at most n
SeqUpTo(S, n) == UNION {[1..k -> S] : k \in 0..n}

-----------------------------------------------------------------------------
(* GeminiVertexAI.__init__ *)

\* self.models
models ==
    [n \in {"gemini-2.0-flash-exp", "gemini-2.0-flash-thinking-exp"} |-> n]

\* GenerativeModel(name): a handle bound to one remote model
GenerativeModel(name) == [model_name |-> name]

\* Identifiers a caller may pass to set_model
ModelNames == DOMAIN models \cup {"not-a-real-model", "gemini-1.5-pro"}

\* __init__, line 39: the default model is the active one after construction
InitialModel == GenerativeModel(models["gemini-2.0-flash-exp"])

-----------------------------------------------------------------------------
(* set_model *)

\* str(list(self.models.keys())) as the f-string prints it
ModelsKeysText == "['gemini-2.0-flash-exp', 'gemini-2.0-flash-thinking-exp']"

\* A slip: the handle of line 39 is bound again, whatever was asked for
set_model_handle_default(model_name) ==
    GenerativeModel(models["gemini-2.0-flash-exp"])

\* The handle set_model binds for a supported identifier (line 51)
set_model_handle(model_name) == GenerativeModel(models[model_name])

\* A slip: the handle is replaced before the identifier is validated
set_model_effect_assign_first(self_model, model_name) ==
    IF model_name \notin DOMAIN models
    THEN [model  |-> GenerativeModel(model_name),
          result |-> Raise("ValueError",
                           "Model " \o model_name
                           \o " not supported. Available models: "
                           \o ModelsKeysText)]
    ELSE [model  |-> GenerativeModel(models[model_name]),
          result |-> None]

\* A slip: the identifier is not validated at all
set_model_effect_unvalidated(self_model, model_name) ==
    [model |-> GenerativeModel(model_name), result |-> None]

\* The effect of set_model on self.model and how the call is left
set_model_effect(self_model, model_name) ==
    IF model_name \notin DOMAIN models
    THEN [model  |-> self_model,
          result |-> Raise("ValueError",
                           "Model " \o model_name
                           \o " not supported. Available models: "
                           \o ModelsKeysText)]
    ELSE [model  |-> set_model_handle(model_name),
          result |-> None]

set_model(model_name) ==
    LET e == set_model_effect(model, model_name) IN
    /\ Idle
    /\ model' = e.model
    /\ result' = e.result
    /\ call' = [op |-> "set_model", arg |-> model_name, kwargs |-> <<>>]
    /\ selected' = IF e.result.kind = "return" THEN model_name ELSE selected
    /\ sent' = <<>>
    /\ replies' = <<>>
    /\ warnings' = <<>>
    /\ staged' = {}
    /\ UNCHANGED <<fs, frontend>>

-----------------------------------------------------------------------------
(* Generation parameters *)

Params == {"temperature", "top_p", "top_k", "max_output_tokens"}

\* The defaults of lines 68-71 and 114-117.  temperature and top_p are
\* written in hundredths (0.7 -> 70, 0.95 -> 95); no arithmetic is done on
\* them anywhere in the adapter.
DefaultConfig ==
    [temperature |-> 70, top_p |-> 95, top_k |-> 40,
     max_output_tokens |-> 2048]

\* A value other than the default a caller may supply for each parameter
OtherValue ==
    [temperature |-> 30, top_p |-> 80, top_k |-> 10,
     max_output_tokens |-> 500]

\* The **kwargs a caller may pass: every subset of the parameters, and also
\* a default supplied explicitly and a keyword the adapter does not know
KwargsSet ==
    {[k \in S |-> OtherValue[k]] : S \in SUBSET Params}
    \cup {[k \in {"temperature"} |-> 70],
          [k \in {"stream", "top_k"} |-> IF k = "top_k" THEN 10 ELSE 1]}

\* A slip: top_k is read from the top_p keyword
generation_config_wrong_key(kwargs) ==
    [temperature       |-> Get(kwargs, "temperature", 70),
     top_p             |-> Get(kwargs, "top_p", 95),
     top_k             |-> Get(kwargs, "top_p", 40),
     max_output_tokens |-> Get(kwargs, "max_output_tokens", 2048)]

\* The generation_config dict built from **kwargs (lines 67-72, 113-118)
generation_config(kwargs) ==
    [temperature       |-> Get(kwargs, "temperature", 70),
     top_p             |-> Get(kwargs, "top_p", 95),
     top_k             |-> Get(kwargs, "top_k", 40),
     max_output_tokens |-> Get(kwargs, "max_output_tokens", 2048)]

\* A request made without a generation_config argument
NoConfig == <<>>

-----------------------------------------------------------------------------
(* The remote service *)

Prompts == {"Say hi", ""}
ReplyTexts == {"Hello!"}
Causes == {"503 Service Unavailable", "429 Quota exceeded"}

\* What a remote call can do: reply, raise, or reply with a response whose
\* .text property raises (a blocked or empty candidate)
RemoteOutcomes ==
    {[kind |-> "ok", text |-> t] : t \in ReplyTexts}
    \cup {[kind |-> "raise", text |-> c] : c \in Causes}
    \cup {[kind |-> "no_text", text |-> "Cannot get the response text."]}

-----------------------------------------------------------------------------
(* generate_text *)

\* The except clause of generate_text (lines 82-83)
generate_text_except(cause) == Return("Error generating text: " \o cause)

\* A slip: a failed request is issued once more before the error is returned
generate_text_effect_retry(self_model, prompt, kwargs, outcome) ==
    LET request == [api |-> "generate_content", model |-> self_model,
                    contents |-> prompt,
                    generation_config |-> generation_config(kwargs)] IN
    [sent   |-> IF outcome.kind = "raise"
                THEN <<request, request>> ELSE <<request>>,
     replies |-> IF outcome.kind = "raise"
                 THEN <<outcome, outcome>> ELSE <<outcome>>,
     result |-> IF outcome.kind = "ok"
                THEN Return(outcome.text)
                ELSE generate_text_except(outcome.text)]

\* generate_text as a function of its inputs and of what the remote call does
generate_text_effect(self_model, prompt, kwargs, outcome) ==
    [sent   |-> <<[api |-> "generate_content", model |-> self_model,
                   contents |-> prompt,
                   generation_config |-> generation_config(kwargs)]>>,
     replies |-> <<outcome>>,
     result |-> IF outcome.kind = "ok"
                THEN Return(outcome.text)
                ELSE generate_text_except(outcome.text)]

\* A slip: the except clause binds the default handle again
generate_text_rebinds_default(prompt, kwargs, outcome) ==
    LET e == generate_text_effect(model, prompt, kwargs, outcome) IN
    /\ Idle
    /\ sent' = e.sent
    /\ replies' = e.replies
    /\ result' = e.result
    /\ call' = [op |-> "generate_text", arg |-> prompt, kwargs |-> kwargs]
    /\ warnings' = <<>>
    /\ staged' = {}
    /\ model' = IF outcome.kind = "ok" THEN model ELSE InitialModel
    /\ UNCHANGED <<selected, fs, frontend>>

generate_text(prompt, kwargs, outcome) ==
    LET e == generate_text_effect(model, prompt, kwargs, outcome) IN
    /\ Idle
    /\ sent' = e.sent
    /\ replies' = e.replies
    /\ result' = e.result
    /\ call' = [op |-> "generate_text", arg |-> prompt, kwargs |-> kwargs]
    /\ warnings' = <<>>
    /\ staged' = {}
    /\ UNCHANGED <<model, selected, fs, frontend>>

-----------------------------------------------------------------------------
(* The local filesystem *)

ENOENT == "<no such file>"      \* the content of a path that does not exist
DIR == "<directory>"            \* the content of a path that is a directory
PARTIAL == "<partial>"          \* a file opened for writing and never filled

\* Paths a caller of generate_with_images may name, and the uploaded file
\* names and bytes the dashboard may receive
UserPaths == {"cat.png", "dog.JPG", "gone.gif", "pics"}
UploadNames == {"a.png", "b.jpeg"}
UploadBytes == {"bytes-1", "bytes-2"}

\* f"temp_{uploaded_file.name}" (streamlit_app.py, line 190)
temp_path_of(name) == "temp_" \o name

AllPaths == UserPaths \cup {temp_path_of(n) : n \in UploadNames}

\* The files present before the program starts
InitialFiles ==
    [p \in AllPaths |->
        CASE p = "cat.png" -> "png-bytes"
          [] p = "dog.JPG" -> "jpg-bytes"
          [] p = "pics"    -> DIR
          [] OTHER         -> ENOENT]

\* os.path.exists
exists(files, path) == path \in DOMAIN files /\ files[path] # ENOENT

-----------------------------------------------------------------------------
(* _get_mime_type *)

char(s, i) == SubSeq(s, i, i)

\* str.rfind, 1-based, 0 when ch does not occur
rfind(s, ch) ==
    LET hits == {i \in 1..Len(s) : char(s, i) = ch} IN
    IF hits = {} THEN 0 ELSE CHOOSE i \in hits : \A j \in hits : j <= i

\* os.path.splitext(path)[1]: the text from the last dot of the last path
\* component, unless that component has only dots before it
splitext_ext(path) ==
    LET sepIndex == rfind(path, "/")
        dotIndex == rfind(path, ".")
    IN  IF /\ dotIndex > sepIndex
           /\ \E i \in (sepIndex + 1)..(dotIndex - 1) : char(path, i) # "."
        THEN SubSeq(path, dotIndex, Len(path))
        ELSE ""

UpperCase == <<"A", "B", "C", "D", "E", "F", "G", "H", "I", "J", "K", "L", "M",
               "N", "O", "P", "Q", "R", "S", "T", "U", "V", "W", "X", "Y", "Z">>
LowerCase == <<"a", "b", "c", "d", "e", "f", "g", "h", "i", "j", "k", "l", "m",
               "n", "o", "p", "q", "r", "s", "t", "u", "v", "w", "x", "y", "z">>

lower_char(c) ==
    IF \E i \in 1..Len(UpperCase) : UpperCase[i] = c
    THEN LowerCase[CHOOSE i \in 1..Len(UpperCase) : UpperCase[i] = c]
    ELSE c

\* str.lower
RECURSIVE lower(_)
lower(s) ==
    IF s = "" THEN ""
    ELSE lower_char(char(s, 1)) \o lower(SubSeq(s, 2, Len(s)))

\* mime_types (lines 163-170)
mime_types ==
    [e \in {".jpg", ".jpeg", ".png", ".gif", ".bmp", ".webp"} |->
        CASE e = ".jpg"  -> "image/jpeg"
          [] e = ".jpeg" -> "image/jpeg"
          [] e = ".png"  -> "image/png"
          [] e = ".gif"  -> "image/gif"
          [] e = ".bmp"  -> "image/bmp"
          [] e = ".webp" -> "image/webp"]

\* A slip: the extension is looked up as it is written
_get_mime_type_case_sensitive(file_path) ==
    LET extension == splitext_ext(file_path) IN
    Get(mime_types, extension, "image/jpeg")

_get_mime_type(file_path) ==
    LET extension == lower(splitext_ext(file_path)) IN
    Get(mime_types, extension, "image/jpeg")

-----------------------------------------------------------------------------
(* generate_with_images *)

\* Part.from_data(image_data, mime_type=mime_type)
Part_from_data(image_data, mime_type) ==
    [data |-> image_data, mime_type |-> mime_type]

\* A slip: no os.path.exists test, so that a missing file makes open() raise
read_image_unchecked(files, image_path, acc) ==
    IF ~exists(files, image_path)
    THEN [acc EXCEPT !.raised = TRUE,
                     !.cause = "[Errno 2] No such file or directory: '"
                               \o image_path \o "'"]
    ELSE IF files[image_path] = DIR
    THEN [acc EXCEPT !.raised = TRUE,
                     !.cause = "[Errno 21] Is a directory: '"
                               \o image_path \o "'"]
    ELSE [acc EXCEPT !.content_parts =
              Append(@, Part_from_data(files[image_path],
                                       _get_mime_type(image_path)))]

\* A slip: a file that cannot be read is passed over with a warning and the
\* loop goes on with the images it has
read_image_skipping_unreadable(files, image_path, acc) ==
    IF exists(files, image_path) /\ files[image_path] # DIR
    THEN [acc EXCEPT !.content_parts =
              Append(@, Part_from_data(files[image_path],
                                       _get_mime_type(image_path)))]
    ELSE [acc EXCEPT !.warnings =
              Append(@, "Warning: Image file " \o image_path \o " not found")]

\* One turn of the loop of lines 101-110 on the loop's state acc:
\* content_parts, the warnings printed, and whether open/read raised
read_image(files, image_path, acc) ==
    IF exists(files, image_path)
    THEN IF files[image_path] = DIR
         THEN [acc EXCEPT !.raised = TRUE,
                          !.cause = "[Errno 21] Is a directory: '"
                                    \o image_path \o "'"]
         ELSE [acc EXCEPT !.content_parts =
                   Append(@, Part_from_data(files[image_path],
                                            _get_mime_type(image_path)))]
    ELSE [acc EXCEPT !.warnings =
              Append(@, "Warning: Image file " \o image_path \o " not found")]

\* The loop of lines 101-110, left at the first exception
RECURSIVE read_images(_, _, _)
read_images(files, image_paths, acc) ==
    IF image_paths = <<>> \/ acc.raised
    THEN acc
    ELSE read_images(files, Tail(image_paths),
                     read_image(files, Head(image_paths), acc))

\* A slip: the message of generate_text, pasted unchanged
generate_with_images_except_pasted(cause) ==
    Return("Error generating text: " \o cause)

\* The except clause of generate_with_images (lines 128-129)
generate_with_images_except(cause) ==
    Return("Error generating text with images: " \o cause)

\* generate_with_images as a function of its inputs, of the files it finds
\* and of what the remote call does
generate_with_images_effect(self_model, files, prompt, image_paths, kwargs, outcome) ==
    LET loaded == read_images(files, image_paths,
                              [content_parts |-> <<prompt>>,
                               warnings |-> <<>>,
                               raised |-> FALSE, cause |-> ""])
    IN  IF loaded.raised
        THEN [sent     |-> <<>>,
              replies  |-> <<>>,
              warnings |-> loaded.warnings,
              result   |-> generate_with_images_except(loaded.cause)]
        ELSE [sent     |-> <<[api |-> "generate_content",
                              model |-> self_model,
                              contents |-> loaded.content_parts,
                              generation_config |->
                                  generation_config(kwargs)]>>,
              replies  |-> <<outcome>>,
              warnings |-> loaded.warnings,
              result   |-> IF outcome.kind = "ok"
                           THEN Return(outcome.text)
                           ELSE generate_with_images_except(outcome.text)]

generate_with_images(prompt, image_paths, kwargs, outcome) ==
    LET e == generate_with_images_effect(model, fs, prompt, image_paths,
                                         kwargs, outcome) IN
    /\ Idle
    /\ sent' = e.sent
    /\ replies' = e.replies
    /\ result' = e.result
    /\ warnings' = e.warnings
    /\ call' = [op |-> "generate_with_images",
                arg |-> [prompt |-> prompt, image_paths |-> image_paths],
                kwargs |-> kwargs]
    /\ staged' = {}
    /\ UNCHANGED <<model, selected, fs, frontend>>

-----------------------------------------------------------------------------
(* chat_conversation *)

\* The message dicts a caller may put in a history; the last one lacks its
\* 'role' key
Messages ==
    {[role |-> "user", content |-> "hi"],
     [role |-> "user", content |-> "2+2?"],
     [role |-> "assistant", content |-> "4"],
     [role |-> "system", content |-> "be brief"],
     [content |-> "hi"]}

Histories == SeqUpTo(Messages, MaxHistory)

\* The keyword arguments callers pass to chat_conversation: none (the CLI)
\* or all four sliders (the dashboard)
ChatKwargsSet ==
    {<<>>, OtherValue}

\* What start_chat can do: hand back a session, or raise
StartOutcomes ==
    {[kind |-> "ok", text |-> "<ChatSession>"]}
    \cup {[kind |-> "raise", text |-> c] : c \in Causes}

\* What start_chat and send_message can do between them
ChatOutcomes == [start : StartOutcomes, send : RemoteOutcomes]

Part_from_text(text) == [text |-> text]
Content(role, parts) == [role |-> role, parts |-> parts]

\* One turn of the loop of lines 145-147 on the loop's state acc
convert_message(message, acc) ==
    IF "role" \notin DOMAIN message
    THEN [acc EXCEPT !.raised = TRUE, !.cause = "'role'"]
    ELSE IF "content" \notin DOMAIN message
    THEN [acc EXCEPT !.raised = TRUE, !.cause = "'content'"]
    ELSE [acc EXCEPT !.contents =
              Append(@, Content(IF message["role"] = "user"
                                THEN "user" ELSE "model",
                                <<Part_from_text(message["content"])>>))]

\* The loop of lines 144-147, left at the first exception
RECURSIVE convert_messages(_, _)
convert_messages(messages, acc) ==
    IF messages = <<>> \/ acc.raised
    THEN acc
    ELSE convert_messages(Tail(messages),
                          convert_message(Head(messages), acc))

\* A slip: the whole list is the seed, the last message included
all_but_last_whole(contents) == contents

\* contents[:-1]
all_but_last(contents) == SubSeq(contents, 1, Len(contents) - 1)

\* A slip: the exception is re-raised instead of being turned into text
chat_conversation_except_reraise(cause) == Raise("Exception", cause)

\* The except clause of chat_conversation (lines 157-158)
chat_conversation_except(cause) ==
    Return("Error in chat conversation: " \o cause)

\* The generation_config chat_conversation hands to send_message (line 153)
chat_generation_config(kwargs) == NoConfig

\* A slip: the session of an earlier call is kept, so that a history with
\* earlier turns is not replayed and only its last message is sent
chat_conversation_effect_kept_session(self_model, messages, kwargs, outcome) ==
    LET conv == convert_messages(messages,
                    [contents |-> <<>>, raised |-> FALSE, cause |-> ""])
        contents == conv.contents
        start == [api |-> "start_chat", model |-> self_model,
                  history |-> <<>>]
        send == [api |-> "send_message", model |-> self_model,
                 history |-> <<>>,
                 content |-> contents[Len(contents)].parts[1].text,
                 generation_config |-> chat_generation_config(kwargs)]
    IN  IF conv.raised \/ contents = <<>>
        THEN [sent    |-> <<>>,
              replies |-> <<>>,
              result  |-> chat_conversation_except(conv.cause)]
        ELSE IF Len(contents) = 1 /\ outcome.start.kind = "raise"
        THEN [sent    |-> <<start>>,
              replies |-> <<outcome.start>>,
              result  |-> chat_conversation_except(outcome.start.text)]
        ELSE [sent    |-> IF Len(contents) = 1 THEN <<start, send>> ELSE <<send>>,
              replies |-> IF Len(contents) = 1
                          THEN <<outcome.start, outcome.send>>
                          ELSE <<outcome.send>>,
              result  |-> IF outcome.send.kind = "ok"
                          THEN Return(outcome.send.text)
                          ELSE chat_conversation_except(outcome.send.text)]

\* chat_conversation as a function of its inputs and of what the SDK does
chat_conversation_effect(self_model, messages, kwargs, outcome) ==
    LET conv == convert_messages(messages,
                    [contents |-> <<>>, raised |-> FALSE, cause |-> ""])
        contents == conv.contents
        start == [api |-> "start_chat", model |-> self_model,
                  history |-> all_but_last(contents)]
        send == [api |-> "send_message", model |-> self_model,
                 history |-> all_but_last(contents),
                 content |-> contents[Len(contents)].parts[1].text,
                 generation_config |-> chat_generation_config(kwargs)]
    IN  IF conv.raised
        THEN [sent    |-> <<>>,
              replies |-> <<>>,
              result  |-> chat_conversation_except(conv.cause)]
        ELSE IF outcome.start.kind = "raise"
        THEN [sent    |-> <<start>>,
              replies |-> <<outcome.start>>,
              result  |-> chat_conversation_except(outcome.start.text)]
        ELSE IF contents = <<>>
        THEN [sent    |-> <<start>>,
              replies |-> <<outcome.start>>,
              result  |-> chat_conversation_except("list index out of range")]
        ELSE [sent    |-> <<start, send>>,
              replies |-> <<outcome.start, outcome.send>>,
              result  |-> IF outcome.send.kind = "ok"
                          THEN Return(outcome.send.text)
                          ELSE chat_conversation_except(outcome.send.text)]

chat_conversation(messages, kwargs, outcome) ==
    LET e == chat_conversation_effect(model, messages, kwargs, outcome) IN
    /\ Idle
    /\ sent' = e.sent
    /\ replies' = e.replies
    /\ result' = e.result
    /\ call' = [op |-> "chat_conversation", arg |-> messages,
                kwargs |-> kwargs]
    /\ warnings' = <<>>
    /\ staged' = {}
    /\ UNCHANGED <<model, selected, fs, frontend>>

-----------------------------------------------------------------------------
(* The dashboard session (streamlit_app.py, lines 40-46) *)

\* st.session_state.gemini_client is None, or the adapter whose self.model
\* is the variable model
NoClient == "None"
Client == "GeminiVertexAI"

\* The session state of a new browser session (lines 40-46)
InitialSessionState == [gemini_client |-> NoClient, chat_history |-> <<>>, current_model |-> "gemini-2.0-flash-exp"]

\* The session state once Initialize Gemini Client has succeeded
ReadySessionState == [InitialSessionState EXCEPT !.gemini_client = Client]

\* The test of lines 103 and 125: without an adapter the script shows a
\* warning and returns before it renders any tab
HasClient == session_state.gemini_client # NoClient

\* The CLI at its menu prompt (gemini_app.py, line 191)
AtMenu == [option |-> "menu", messages |-> <<>>]

\* Two browser sessions of one dashboard process
Sessions == {"s1", "s2"}

\* A session that is not inside its Analyze Images handler
NoThread == [pc |-> "idle", uploaded_files |-> <<>>, i |-> 0, temp_paths |-> <<>>, content_parts |-> <<>>, sent |-> <<>>]

-----------------------------------------------------------------------------
(* The dashboard's Analyze Images handler (streamlit_app.py, lines 184-213) *)

\* The files st.file_uploader may hand over: names may repeat
UploadedFiles == {[name |-> n, data |-> d] : n \in UploadNames, d \in UploadBytes}

\* The four sliders of lines 119-122, always passed together
SliderSettings ==
    {[temperature |-> 70, max_output_tokens |-> 2048, top_p |-> 95,
      top_k |-> 40],
     OtherValue}

\* Where the handler may be interrupted by an exception: nowhere, in open()
\* or f.write() of the at-th uploaded file, or in the st.* calls that show
\* the response
Faults ==
    {[at |-> 0, kind |-> "none"], [at |-> 0, kind |-> "display"]}
    \cup {[at |-> i, kind |-> k] : i \in 1..MaxUploads, k \in {"open", "write"}}

\* One turn of the loop of lines 189-193 on the loop's state acc
stage_file(uploaded_file, fault_kind, acc) ==
    LET temp_path == temp_path_of(uploaded_file.name) IN
    IF fault_kind = "open"
    THEN [acc EXCEPT !.raised = TRUE]
    ELSE IF fault_kind = "write"
    THEN [acc EXCEPT !.files[temp_path] = PARTIAL,
                     !.created = @ \cup {temp_path},
                     !.raised = TRUE]
    ELSE [acc EXCEPT !.files[temp_path] = uploaded_file.data,
                     !.created = @ \cup {temp_path},
                     !.temp_paths = Append(@, temp_path)]

\* The loop of lines 189-193 from the i-th uploaded file on, left at the
\* first exception
RECURSIVE stage_files(_, _, _, _)
stage_files(uploaded_files, i, fault, acc) ==
    IF i > Len(uploaded_files) \/ acc.raised
    THEN acc
    ELSE stage_files(uploaded_files, i + 1, fault,
                     stage_file(uploaded_files[i],
                                IF fault.at = i THEN fault.kind ELSE "none",
                                acc))

\* The finally clause (lines 207-211)
RECURSIVE remove_temp_files(_, _)
remove_temp_files(files, temp_paths) ==
    IF temp_paths = <<>>
    THEN files
    ELSE remove_temp_files(
             IF exists(files, Head(temp_paths))
             THEN [files EXCEPT ![Head(temp_paths)] = ENOENT]
             ELSE files,
             Tail(temp_paths))

analyze_images(uploaded_files, vision_prompt, sliders, outcome, fault) ==
    LET st == stage_files(uploaded_files, 1, fault,
                  [files |-> fs, temp_paths |-> <<>>, created |-> {},
                   raised |-> FALSE])
        e == generate_with_images_effect(model, st.files, vision_prompt,
                                         st.temp_paths, sliders, outcome)
    IN
    /\ Idle
    /\ HasClient
    /\ fault.at <= Len(uploaded_files)
    /\ call' = [op |-> "analyze_images",
                arg |-> [prompt |-> vision_prompt,
                         uploaded_files |-> uploaded_files],
                kwargs |-> sliders]
    /\ IF uploaded_files = <<>> \/ vision_prompt = ""
       THEN \* line 213: st.error, nothing staged and nothing sent
            /\ fault.kind = "none"
            /\ sent' = <<>>
            /\ replies' = <<>>
            /\ warnings' = <<>>
            /\ staged' = {}
            /\ result' = None
            /\ UNCHANGED fs
       ELSE IF st.raised
       THEN \* open() or f.write() raised before the try block was entered
            /\ sent' = <<>>
            /\ replies' = <<>>
            /\ warnings' = <<>>
            /\ staged' = st.created
            /\ result' = Raise("OSError", "[Errno 28] No space left on device")
            /\ fs' = st.files
       ELSE /\ fault.kind \in {"none", "display"}
            /\ sent' = e.sent
            /\ replies' = e.replies
            /\ warnings' = e.warnings
            /\ staged' = st.created
            /\ result' = IF fault.kind = "display"
                         THEN Raise("StreamlitAPIException", "display failed")
                         ELSE None
            /\ fs' = remove_temp_files(st.files, st.temp_paths)
    /\ UNCHANGED <<model, selected, frontend>>

-----------------------------------------------------------------------------
(* The caller's loop *)

\* The caller has dealt with the outcome of the last operation and waits
\* for the next command (the while loop of gemini_app.main, a rerun of the
\* dashboard script)
next_command ==
    /\ ~Idle
    /\ call' = NoCall
    /\ sent' = <<>>
    /\ replies' = <<>>
    /\ warnings' = <<>>
    /\ staged' = {}
    /\ result' = None
    /\ UNCHANGED <<model, selected, fs, frontend>>

Init ==
    /\ model = InitialModel
    /\ selected = "gemini-2.0-flash-exp"
    /\ fs = InitialFiles
    /\ call = NoCall
    /\ sent = <<>>
    /\ replies = <<>>
    /\ warnings = <<>>
    /\ staged = {}
    /\ result = None
    /\ program = "api"
    /\ session_state = InitialSessionState
    /\ cli = AtMenu
    /\ threads = [s \in Sessions |-> NoThread]

\* The commands a caller may issue, each with any of its inputs.  A command
\* is taken only between two operations: the callers are single-threaded
\* and each operation runs to its end.
Call_set_model ==
    Idle /\ \E model_name \in ModelNames : set_model(model_name)

Call_generate_text ==
    Idle /\ \E prompt \in Prompts, kwargs \in KwargsSet,
               outcome \in RemoteOutcomes :
               generate_text(prompt, kwargs, outcome)

Call_generate_with_images ==
    Idle /\ \E prompt \in Prompts,
               image_paths \in SeqUpTo(UserPaths, MaxImages),
               kwargs \in KwargsSet, outcome \in RemoteOutcomes :
               generate_with_images(prompt, image_paths, kwargs, outcome)

Call_chat_conversation ==
    Idle /\ \E messages \in Histories, kwargs \in ChatKwargsSet,
               outcome \in ChatOutcomes :
               chat_conversation(messages, kwargs, outcome)

Click_analyze_images ==
    Idle /\ \E uploaded_files \in SeqUpTo(UploadedFiles, MaxUploads),
               vision_prompt \in Prompts, sliders \in SliderSettings,
               outcome \in RemoteOutcomes, fault \in Faults :
               analyze_images(uploaded_files, vision_prompt, sliders,
                              outcome, fault)

\* _get_mime_type called on a path, as generate_with_images does at line 108
get_mime_type(file_path) ==
    /\ Idle
    /\ call' = [op |-> "_get_mime_type", arg |-> file_path, kwargs |-> <<>>]
    /\ result' = Return(_get_mime_type(file_path))
    /\ sent' = <<>>
    /\ replies' = <<>>
    /\ warnings' = <<>>
    /\ staged' = {}
    /\ UNCHANGED <<model, selected, fs, frontend>>

\* File paths: a name, in a directory or not, with dots or not, followed by
\* an extension in some spelling, or by none
Stems == {"a", "photos/b", "dir.v2/c", ".hidden", "x.tar", "d.", "IMG_01"}
Extensions == {".jpg", ".jpeg", ".png", ".gif", ".bmp", ".webp", ".JPG", ".JPEG", ".PNG", ".GIF", ".BMP", ".WEBP", ".Jpg", ".pNg", ".WebP", ".giF", ".tiff", ".txt", ".svg", ".jpg2", ".pn", ""}

Call_get_mime_type ==
    Idle /\ \E stem \in Stems, extension \in Extensions :
               get_mime_type(stem \o extension)

\* _get_mime_type on its own, for any path
MimeNext ==
    \/ Call_get_mime_type
    \/ next_command

MimeSpec == Init /\ [][MimeNext]_vars

\* The adapter driven by its direct callers (gemini_app.main, example.py)
Next ==
    \/ Call_set_model
    \/ Call_generate_text
    \/ Call_generate_with_images
    \/ Call_chat_conversation
    \/ next_command

Spec == Init /\ [][Next]_vars

\* The adapter driven by the dashboard session that holds it
DashboardNext ==
    \/ Click_analyze_images
    \/ next_command

\* The session has clicked Initialize Gemini Client and holds an adapter
DashboardInit ==
    /\ model = InitialModel
    /\ selected = "gemini-2.0-flash-exp"
    /\ fs = InitialFiles
    /\ call = NoCall
    /\ sent = <<>>
    /\ replies = <<>>
    /\ warnings = <<>>
    /\ staged = {}
    /\ result = None
    /\ program = "dashboard"
    /\ session_state = ReadySessionState
    /\ cli = AtMenu
    /\ threads = [s \in Sessions |-> NoThread]

DashboardSpec == DashboardInit /\ [][DashboardNext]_vars

-----------------------------------------------------------------------------
(* Constructing the adapter *)

\* The values of GOOGLE_CLOUD_PROJECT and of the Project ID field
ProjectIds == {"", "my-project"}

\* What vertexai.init does with the project: accept it, or raise
InitOutcomes ==
    {[kind |-> "ok", text |-> ""],
     [kind |-> "raise", text |-> "403 Permission denied on project"]}

\* No adapter exists, hence no self.model
NoModel == [model_name |-> "None"]

\* GeminiVertexAI(project_id): __init__ calls vertexai.init outside any try
\* statement
GeminiVertexAI(project_id, outcome) ==
    IF outcome.kind = "raise"
    THEN Raise("Exception", outcome.text)
    ELSE [kind |-> "return", type |-> "GeminiVertexAI", value |-> Client]

\* The request __init__ makes at line 30
vertexai_init(project_id) ==
    [api |-> "vertexai.init", project |-> project_id,
     location |-> "us-central1"]

-----------------------------------------------------------------------------
(* gemini_app.main: the command-line menu *)

\* main before its first line
NotStarted == [option |-> "start", messages |-> <<>>]

\* main has returned, or an exception has ended it
Exited == [option |-> "exited", messages |-> <<>>]

\* Lines 179-186: the project is read and the adapter constructed
cli_start(project_id, outcome) ==
    LET constructed == GeminiVertexAI(project_id, outcome) IN
    /\ Idle
    /\ program = "cli"
    /\ cli.option = "start"
    /\ call' = [op |-> "main", arg |-> project_id, kwargs |-> <<>>]
    /\ staged' = {}
    /\ IF project_id = ""
       THEN /\ sent' = <<>>
            /\ replies' = <<>>
            /\ warnings' = <<"Error: Please set the GOOGLE_CLOUD_PROJECT environment variable">>
            /\ result' = None
            /\ cli' = Exited
            /\ UNCHANGED model
       ELSE /\ sent' = <<vertexai_init(project_id)>>
            /\ replies' = <<outcome>>
            /\ warnings' = <<>>
            /\ result' = IF constructed.kind = "raise" THEN constructed ELSE None
            /\ cli' = IF constructed.kind = "raise" THEN Exited ELSE AtMenu
            /\ model' = IF constructed.kind = "raise" THEN model ELSE InitialModel
    /\ UNCHANGED <<selected, fs, program, session_state, threads>>

\* Option 1 (lines 201-205)
cli_generate_text(prompt, outcome) ==
    /\ program = "cli"
    /\ cli.option = "menu"
    /\ generate_text(prompt, <<>>, outcome)

\* Option 3, lines 216-217: chat mode is entered with an empty messages list
cli_enter_chat ==
    /\ Idle
    /\ program = "cli"
    /\ cli.option = "menu"
    /\ cli' = [option |-> "chat", messages |-> <<>>]
    /\ UNCHANGED <<model, selected, fs, call, sent, replies, result, warnings, staged, program, session_state, threads>>

\* What the user types at the "You: " prompt
ChatInputs == {"hi", "and then?", "", "quit", "Quit"}

\* A slip: the reply is recorded only when it is not an error string
record_turn_skipping_errors(history, response) ==
    IF StartsWith(response, "Error") THEN history
    ELSE Append(history, [role |-> "assistant", content |-> response])

\* messages.append({"role": "assistant", "content": response}) (line 227,
\* and streamlit_app.py line 253)
record_turn(history, response) ==
    Append(history, [role |-> "assistant", content |-> response])

\* One turn of the chat loop (lines 219-227) for an input that is not quit
cli_chat_turn(user_input, outcome) ==
    LET history == Append(cli.messages, [role |-> "user", content |-> user_input])
        e == chat_conversation_effect(model, history, <<>>, outcome)
    IN
    /\ Idle
    /\ program = "cli"
    /\ cli.option = "chat"
    /\ lower(user_input) # "quit"
    /\ Len(history) <= MaxHistory
    /\ call' = [op |-> "chat_conversation", arg |-> history, kwargs |-> <<>>]
    /\ sent' = e.sent
    /\ replies' = e.replies
    /\ result' = e.result
    /\ warnings' = <<>>
    /\ staged' = {}
    /\ cli' = [cli EXCEPT !.messages = record_turn(history, e.result.value)]
    /\ UNCHANGED <<model, selected, fs, program, session_state, threads>>

\* Lines 220-221: quit, in any case, leaves chat mode for the menu
cli_chat_quit(user_input) ==
    /\ Idle
    /\ program = "cli"
    /\ cli.option = "chat"
    /\ lower(user_input) = "quit"
    /\ cli' = AtMenu
    /\ UNCHANGED <<model, selected, fs, call, sent, replies, result, warnings, staged, program, session_state, threads>>

\* int(s) for the text typed at a prompt: an optional sign and decimal digits
Digits == "0123456789"
is_digit(c) == \E i \in 1..Len(Digits) : char(Digits, i) = c
digit_value(c) == (CHOOSE i \in 1..Len(Digits) : char(Digits, i) = c) - 1

RECURSIVE decimal_value(_, _)
decimal_value(s, acc) ==
    IF s = "" THEN acc
    ELSE decimal_value(SubSeq(s, 2, Len(s)), 10 * acc + digit_value(char(s, 1)))

int(s) ==
    LET signed == s # "" /\ char(s, 1) \in {"-", "+"}
        digits == IF signed THEN SubSeq(s, 2, Len(s)) ELSE s
    IN  IF digits = "" \/ \E i \in 1..Len(digits) : ~is_digit(char(digits, i))
        THEN Raise("ValueError",
                   "invalid literal for int() with base 10: '" \o s \o "'")
        ELSE [kind |-> "return", type |-> "int",
              value |-> IF signed /\ char(s, 1) = "-"
                        THEN 0 - decimal_value(digits, 0)
                        ELSE decimal_value(digits, 0)]

\* list(gemini.models.keys()): a dict keeps the order of insertion
models_keys == <<"gemini-2.0-flash-exp", "gemini-2.0-flash-thinking-exp">>

\* lst[index] of a Python list: a negative index counts from the end
list_getitem(lst, index) ==
    IF 0 <= index /\ index < Len(lst)
    THEN [kind |-> "return", type |-> "str", value |-> lst[index + 1]]
    ELSE IF index < 0 /\ 0 - index <= Len(lst)
    THEN [kind |-> "return", type |-> "str", value |-> lst[Len(lst) + index + 1]]
    ELSE Raise("IndexError", "list index out of range")

\* What is typed at "Enter model number: ", already stripped
ModelChoices == {"1", "2", "3", "0", "-1", "-2", "-3", "abc", "", "1.5", "2x"}

\* Option 4 (lines 229-240) as a function of the text typed
switch_model_effect(self_model, model_choice) ==
    LET parsed == int(model_choice)
        picked == list_getitem(models_keys, parsed.value - 1)
        e == set_model_effect(self_model, picked.value)
    IN  IF parsed.kind = "raise" \/ picked.kind = "raise" \/ e.result.kind = "raise"
        THEN [model |-> self_model, called |-> FALSE,
              printed |-> <<"Invalid model selection">>]
        ELSE [model |-> e.model, called |-> TRUE, model_name |-> picked.value,
              printed |-> <<"Model set to: " \o picked.value>>]

cli_switch_model(model_choice) ==
    LET e == switch_model_effect(model, model_choice) IN
    /\ Idle
    /\ program = "cli"
    /\ cli.option = "menu"
    /\ call' = [op |-> "switch_model", arg |-> model_choice, kwargs |-> <<>>]
    /\ model' = e.model
    /\ selected' = IF e.called THEN e.model_name ELSE selected
    /\ warnings' = e.printed
    /\ result' = None
    /\ sent' = <<>>
    /\ replies' = <<>>
    /\ staged' = {}
    /\ UNCHANGED <<fs, frontend>>

-----------------------------------------------------------------------------
(* streamlit_app.main: the handlers of one dashboard session *)

\* A slip: the project identifier is not tested
initialize_gemini_untested(project_id, outcome) ==
    IF GeminiVertexAI(project_id, outcome).kind = "raise"
    THEN NoClient
    ELSE Client

\* initialize_gemini (lines 48-72): None for an empty project identifier
\* and for any exception of the constructor
initialize_gemini(project_id, outcome) ==
    IF project_id = ""
    THEN NoClient
    ELSE IF GeminiVertexAI(project_id, outcome).kind = "raise"
    THEN NoClient
    ELSE Client

\* The Initialize Gemini Client button (lines 97-100), followed in the same
\* run by the model selector, which shows current_model (lines 103-115)
click_initialize(project_id, outcome) ==
    LET client == initialize_gemini(project_id, outcome) IN
    /\ Idle
    /\ program = "dashboard"
    /\ call' = [op |-> "initialize_gemini", arg |-> project_id, kwargs |-> <<>>]
    /\ sent' = IF project_id = "" THEN <<>> ELSE <<vertexai_init(project_id)>>
    /\ replies' = IF project_id = "" THEN <<>> ELSE <<outcome>>
    /\ warnings' = <<>>
    /\ staged' = {}
    /\ result' = None
    /\ session_state' = [session_state EXCEPT !.gemini_client = client]
    /\ model' = IF client = NoClient THEN NoModel ELSE InitialModel
    /\ UNCHANGED <<selected, fs, program, cli, threads>>

\* The Choose Model selector set to another model than current_model
\* (lines 106-115)
choose_model(selected_model) ==
    LET e == set_model_effect(model, selected_model) IN
    /\ Idle
    /\ program = "dashboard"
    /\ HasClient
    /\ selected_model # session_state.current_model
    /\ call' = [op |-> "set_model", arg |-> selected_model, kwargs |-> <<>>]
    /\ model' = e.model
    /\ result' = e.result
    /\ selected' = selected_model
    /\ session_state' = [session_state EXCEPT !.current_model = selected_model]
    /\ sent' = <<>>
    /\ replies' = <<>>
    /\ warnings' = <<>>
    /\ staged' = {}
    /\ UNCHANGED <<fs, program, cli, threads>>

\* The Generate button (lines 144-158)
click_generate(prompt, sliders, outcome) ==
    LET e == generate_text_effect(model, prompt, sliders, outcome) IN
    /\ Idle
    /\ program = "dashboard"
    /\ HasClient
    /\ IF prompt = ""
       THEN /\ call' = [op |-> "st.error", arg |-> "Please enter a prompt", kwargs |-> <<>>]
            /\ sent' = <<>>
            /\ replies' = <<>>
            /\ result' = None
       ELSE /\ call' = [op |-> "generate_text", arg |-> prompt, kwargs |-> sliders]
            /\ sent' = e.sent
            /\ replies' = e.replies
            /\ result' = e.result
    /\ warnings' = <<>>
    /\ staged' = {}
    /\ UNCHANGED <<model, selected, fs, frontend>>

\* The Send button with a message typed (lines 238-255)
click_send(user_input, sliders, outcome) ==
    LET history == Append(session_state.chat_history, [role |-> "user", content |-> user_input])
        e == chat_conversation_effect(model, history, sliders, outcome)
    IN
    /\ Idle
    /\ program = "dashboard"
    /\ HasClient
    /\ user_input # ""
    /\ Len(history) <= MaxHistory
    /\ call' = [op |-> "chat_conversation", arg |-> history, kwargs |-> sliders]
    /\ sent' = e.sent
    /\ replies' = e.replies
    /\ result' = e.result
    /\ warnings' = <<>>
    /\ staged' = {}
    /\ session_state' = [session_state EXCEPT !.chat_history = record_turn(history, e.result.value)]
    /\ UNCHANGED <<model, selected, fs, program, cli, threads>>

\* The Clear Chat button (lines 258-260)
click_clear_chat ==
    /\ Idle
    /\ program = "dashboard"
    /\ HasClient
    /\ call' = [op |-> "clear_chat", arg |-> "", kwargs |-> <<>>]
    /\ session_state' = [session_state EXCEPT !.chat_history = <<>>]
    /\ sent' = <<>>
    /\ replies' = <<>>
    /\ result' = None
    /\ warnings' = <<>>
    /\ staged' = {}
    /\ UNCHANGED <<model, selected, fs, program, cli, threads>>

-----------------------------------------------------------------------------
(* The two front ends *)

\* Either program before it has constructed an adapter
FrontEndInit ==
    /\ program \in {"cli", "dashboard"}
    /\ model = NoModel
    /\ selected = "gemini-2.0-flash-exp"
    /\ fs = InitialFiles
    /\ call = NoCall
    /\ sent = <<>>
    /\ replies = <<>>
    /\ warnings = <<>>
    /\ staged = {}
    /\ result = None
    /\ session_state = InitialSessionState
    /\ cli = NotStarted
    /\ threads = [s \in Sessions |-> NoThread]

Cli_start ==
    Idle /\ \E project_id \in ProjectIds, outcome \in InitOutcomes :
               cli_start(project_id, outcome)

Cli_generate_text ==
    Idle /\ \E prompt \in Prompts, outcome \in RemoteOutcomes :
               cli_generate_text(prompt, outcome)

Cli_chat_turn ==
    Idle /\ \E user_input \in ChatInputs, outcome \in ChatOutcomes :
               cli_chat_turn(user_input, outcome)

Cli_chat_quit ==
    Idle /\ \E user_input \in ChatInputs : cli_chat_quit(user_input)

Cli_switch_model ==
    Idle /\ \E model_choice \in ModelChoices : cli_switch_model(model_choice)

Click_initialize ==
    Idle /\ \E project_id \in ProjectIds, outcome \in InitOutcomes :
               click_initialize(project_id, outcome)

Choose_model ==
    Idle /\ \E selected_model \in DOMAIN models : choose_model(selected_model)

Click_generate ==
    Idle /\ \E prompt \in Prompts, sliders \in SliderSettings,
               outcome \in RemoteOutcomes :
               click_generate(prompt, sliders, outcome)

\* Analyze Images with one uploaded file and no fault of the filesystem
Click_analyze_one_image ==
    Idle /\ program = "dashboard"
         /\ \E uploaded_file \in UploadedFiles, vision_prompt \in Prompts,
               sliders \in SliderSettings, outcome \in RemoteOutcomes :
               analyze_images(<<uploaded_file>>, vision_prompt, sliders,
                              outcome, [at |-> 0, kind |-> "none"])

Click_send ==
    Idle /\ \E user_input \in ChatInputs, sliders \in SliderSettings,
               outcome \in ChatOutcomes :
               click_send(user_input, sliders, outcome)

\* The menu of gemini_app.main and the handlers of streamlit_app.main
FrontEndNext ==
    \/ Cli_start
    \/ Cli_generate_text
    \/ cli_enter_chat
    \/ Cli_chat_turn
    \/ Cli_chat_quit
    \/ Cli_switch_model
    \/ Click_initialize
    \/ Choose_model
    \/ Click_generate
    \/ Click_analyze_one_image
    \/ Click_send
    \/ click_clear_chat
    \/ next_command

FrontEndSpec == FrontEndInit /\ [][FrontEndNext]_vars

-----------------------------------------------------------------------------
(* Two sessions of one dashboard process in their Analyze Images handlers *)

\* Streamlit runs the script of each browser session in a thread of its own
\* inside one server process: the sessions have separate session states and
\* adapters, and share the process's working directory, where line 190 puts
\* the temporary files.  A thread takes one step per file staged, read or
\* removed; threads[s] is the handler's position and its local variables.

\* uploaded_file.name of each file is different from the others'
DistinctNames(uploaded_files) ==
    \A i, j \in 1..Len(uploaded_files) :
        uploaded_files[i].name = uploaded_files[j].name => i = j

\* Line 187: the button is pressed with files and a prompt
thread_click(s, uploaded_files, vision_prompt) ==
    /\ threads[s].pc = "idle"
    /\ uploaded_files # <<>>
    /\ vision_prompt # ""
    /\ DistinctNames(uploaded_files)
    /\ threads' = [threads EXCEPT ![s] =
           [pc |-> "staging", uploaded_files |-> uploaded_files, i |-> 0,
            temp_paths |-> <<>>, content_parts |-> <<vision_prompt>>,
            sent |-> <<>>]]
    /\ UNCHANGED <<model, selected, fs, call, sent, replies, result, warnings, staged, program, session_state, cli>>

\* Lines 189-193 for the next uploaded file; after the last one the handler
\* calls generate_with_images(vision_prompt, temp_paths)
thread_stage(s) ==
    LET t == threads[s]
        st == stage_file(t.uploaded_files[t.i + 1], "none",
                         [files |-> fs, temp_paths |-> t.temp_paths,
                          created |-> {}, raised |-> FALSE])
    IN
    /\ t.pc = "staging"
    /\ fs' = st.files
    /\ threads' = [threads EXCEPT ![s] =
           [t EXCEPT !.temp_paths = st.temp_paths,
                     !.i = IF t.i + 1 = Len(t.uploaded_files) THEN 0 ELSE t.i + 1,
                     !.pc = IF t.i + 1 = Len(t.uploaded_files)
                            THEN "reading" ELSE "staging"]]
    /\ UNCHANGED <<model, selected, call, sent, replies, result, warnings, staged, program, session_state, cli>>

\* gemini_app.py, lines 101-110 for the next path of image_paths; an
\* exception of open() is caught at line 128 and the finally clause follows
thread_read(s) ==
    LET t == threads[s]
        loaded == read_image(fs, t.temp_paths[t.i + 1],
                             [content_parts |-> t.content_parts,
                              warnings |-> <<>>, raised |-> FALSE,
                              cause |-> ""])
    IN
    /\ t.pc = "reading"
    /\ t.i < Len(t.temp_paths)
    /\ threads' = [threads EXCEPT ![s] =
           [t EXCEPT !.content_parts = loaded.content_parts,
                     !.i = IF loaded.raised THEN 0 ELSE t.i + 1,
                     !.pc = IF loaded.raised THEN "cleanup" ELSE "reading"]]
    /\ UNCHANGED <<model, selected, fs, call, sent, replies, result, warnings, staged, program, session_state, cli>>

\* gemini_app.py, lines 119-122: the payload goes to the remote service
thread_send(s) ==
    LET t == threads[s] IN
    /\ t.pc = "reading"
    /\ t.i = Len(t.temp_paths)
    /\ threads' = [threads EXCEPT ![s] =
           [t EXCEPT !.sent = <<[api |-> "generate_content",
                                 contents |-> t.content_parts]>>,
                     !.i = 0,
                     !.pc = "cleanup"]]
    /\ UNCHANGED <<model, selected, fs, call, sent, replies, result, warnings, staged, program, session_state, cli>>

\* Lines 207-211 for the next temporary path; after the last one the script
\* run is over
thread_cleanup(s) ==
    LET t == threads[s] IN
    /\ t.pc = "cleanup"
    /\ fs' = remove_temp_files(fs, <<t.temp_paths[t.i + 1]>>)
    /\ threads' = [threads EXCEPT ![s] =
           [t EXCEPT !.i = t.i + 1,
                     !.pc = IF t.i + 1 = Len(t.temp_paths)
                            THEN "done" ELSE "cleanup"]]
    /\ UNCHANGED <<model, selected, call, sent, replies, result, warnings, staged, program, session_state, cli>>

\* Both sessions hold an adapter and neither has clicked yet
ConcurrentInit ==
    /\ model = InitialModel
    /\ selected = "gemini-2.0-flash-exp"
    /\ fs = InitialFiles
    /\ call = NoCall
    /\ sent = <<>>
    /\ replies = <<>>
    /\ warnings = <<>>
    /\ staged = {}
    /\ result = None
    /\ program = "dashboard"
    /\ session_state = ReadySessionState
    /\ cli = AtMenu
    /\ threads = [s \in Sessions |-> NoThread]

Thread_click ==
    \E s \in Sessions, uploaded_files \in SeqUpTo(UploadedFiles, MaxUploads),
       vision_prompt \in Prompts :
       thread_click(s, uploaded_files, vision_prompt)

Thread_stage == \E s \in Sessions : thread_stage(s)
Thread_read == \E s \in Sessions : thread_read(s)
Thread_send == \E s \in Sessions : thread_send(s)
Thread_cleanup == \E s \in Sessions : thread_cleanup(s)

\* Any interleaving of the steps of the two handlers
ConcurrentNext ==
    \/ Thread_click
    \/ Thread_stage
    \/ Thread_read
    \/ Thread_send
    \/ Thread_cleanup

ConcurrentSpec == ConcurrentInit /\ [][ConcurrentNext]_vars

-----------------------------------------------------------------------------
(* Properties of the adapter *)

AdapterOps == {"generate_text", "generate_with_images", "chat_conversation"}
SupportedIdentifiers == DOMAIN models

\* C1: whenever set_model is given an identifier outside the supported set,
\* it raises ValueError and the active model handle after the call is the
\* handle that was active before it.
C1_InvalidModelRejected ==
    [][(call'.op = "set_model" /\ call'.arg \notin SupportedIdentifiers)
        => /\ result'.kind = "raise"
           /\ result'.type = "ValueError"
           /\ model' = model]_vars

\* An invalid identifier was rejected while the alternate model was active
C1_Witness ==
    /\ call.op = "set_model"
    /\ call.arg = "not-a-real-model"
    /\ result.kind = "raise"
    /\ model = GenerativeModel("gemini-2.0-flash-thinking-exp")

\* C2: set_model returns normally for every supported identifier m and binds
\* the handle of m, and every request an operation sends goes to the model
\* of the identifier most recently accepted by set_model.
C2_SelectedModelUsed ==
    /\ (call.op = "set_model" /\ call.arg \in SupportedIdentifiers)
        => /\ result = None
           /\ selected = call.arg
           /\ model = GenerativeModel(call.arg)
    /\ call.op \in AdapterOps
        => \A i \in 1..Len(sent) : sent[i].model = GenerativeModel(selected)

\* A chat turn was sent to the alternate model after it was selected
C2_Witness ==
    /\ call.op = "chat_conversation"
    /\ Len(sent) = 2
    /\ selected = "gemini-2.0-flash-thinking-exp"
    /\ sent[2].model.model_name = "gemini-2.0-flash-thinking-exp"

\* C3: the active model is gemini-2.0-flash-exp after construction and is
\* the model of a supported identifier in every state reached afterwards.
C3_ModelAlwaysSupported ==
    /\ model = GenerativeModel("gemini-2.0-flash-exp")
    /\ [](model.model_name \in SupportedIdentifiers)

\* An unsupported identifier was offered while the alternate model was active
C3_Witness ==
    /\ call.op = "set_model"
    /\ call.arg = "gemini-1.5-pro"
    /\ model.model_name = "gemini-2.0-flash-thinking-exp"

\* The configuration the caller's keyword arguments ask for: the documented
\* defaults with exactly the supplied parameters replaced
Overridden(kwargs) ==
    [k \in Params |-> IF k \in DOMAIN kwargs THEN kwargs[k] ELSE DefaultConfig[k]]

\* C4: every request generate_text and generate_with_images send carries the
\* documented defaults with exactly the supplied parameters replaced by the
\* supplied values.
C4_ConfigIsDefaultsWithOverrides ==
    call.op \in {"generate_text", "generate_with_images"}
        => \A i \in 1..Len(sent) :
               sent[i].generation_config = Overridden(call.kwargs)

\* generate_text("Say hi", temperature=0.3) sent {0.3, 0.95, 40, 2048}
C4_Witness ==
    /\ call.op = "generate_text"
    /\ call.arg = "Say hi"
    /\ call.kwargs = [k \in {"temperature"} |-> 30]
    /\ Len(sent) = 1
    /\ sent[1].generation_config =
           [temperature |-> 30, top_p |-> 95, top_k |-> 40,
            max_output_tokens |-> 2048]

\* C5: every generation parameter the caller supplies to generate_text,
\* generate_with_images or chat_conversation reaches, with the supplied
\* value, the generation request that operation makes.
C5_ParametersPassedThrough ==
    call.op \in AdapterOps
        => \A i \in 1..Len(sent) :
               sent[i].api \in {"generate_content", "send_message"}
                   => \A k \in DOMAIN call.kwargs \cap Params :
                          /\ k \in DOMAIN sent[i].generation_config
                          /\ sent[i].generation_config[k] = call.kwargs[k]

\* C6: generate_text and generate_with_images always return a string, and
\* when the remote call raised or its reply had no text, that string is the
\* operation's error prefix followed by the cause.
C6_GenerateErrorsAreStrings ==
    /\ call.op = "generate_text"
        => /\ result.kind = "return"
           /\ result.type = "str"
           /\ \A i \in 1..Len(replies) :
                  replies[i].kind # "ok"
                      => /\ StartsWith(result.value, "Error generating text: ")
                         /\ result.value =
                                "Error generating text: " \o replies[i].text
    /\ call.op = "generate_with_images"
        => /\ result.kind = "return"
           /\ result.type = "str"
           /\ \A i \in 1..Len(replies) :
                  replies[i].kind # "ok"
                      => /\ StartsWith(result.value,
                                       "Error generating text with images: ")
                         /\ result.value =
                                "Error generating text with images: "
                                \o replies[i].text

\* The remote call of generate_with_images raised and a string came back
C6_Witness ==
    /\ call.op = "generate_with_images"
    /\ Len(replies) = 1
    /\ replies[1].kind = "raise"
    /\ result =
           Return("Error generating text with images: 503 Service Unavailable")

\* The references of image_paths whose file exists / does not exist, in the
\* order of the list, and the payload and warnings they call for
PresentPaths(files, image_paths) ==
    LET Present(p) == exists(files, p) IN SelectSeq(image_paths, Present)
MissingPaths(files, image_paths) ==
    LET Missing(p) == ~exists(files, p) IN SelectSeq(image_paths, Missing)
ExpectedPayload(files, prompt, image_paths) ==
    LET present == PresentPaths(files, image_paths) IN
    <<prompt>> \o [i \in 1..Len(present) |->
                      [data |-> files[present[i]],
                       mime_type |-> _get_mime_type(present[i])]]
ExpectedWarnings(files, image_paths) ==
    LET missing == MissingPaths(files, image_paths) IN
    [i \in 1..Len(missing) |->
        "Warning: Image file " \o missing[i] \o " not found"]
AllReadable(files, image_paths) ==
    \A i \in 1..Len(image_paths) :
        exists(files, image_paths[i]) => files[image_paths[i]] # DIR

\* C7 as stated: for every list of references, a payload that is sent is the
\* prompt followed by one part per existing reference in list order, every
\* missing reference has produced one warning, and missing references do not
\* keep the request from being sent.
C7_PayloadForEveryList ==
    call.op = "generate_with_images"
        => /\ \A i \in 1..Len(sent) :
                  sent[i].contents =
                      ExpectedPayload(fs, call.arg.prompt, call.arg.image_paths)
           /\ warnings = ExpectedWarnings(fs, call.arg.image_paths)
           /\ AllReadable(fs, call.arg.image_paths) => Len(sent) = 1

\* C7 as amended: the same, for every list whose existing references can all
\* be read.
C7_PayloadWhenReadable ==
    (call.op = "generate_with_images"
     /\ AllReadable(fs, call.arg.image_paths))
        => /\ Len(sent) = 1
           /\ sent[1].api = "generate_content"
           /\ sent[1].contents =
                  ExpectedPayload(fs, call.arg.prompt, call.arg.image_paths)
           /\ warnings = ExpectedWarnings(fs, call.arg.image_paths)

\* Three references, the middle one missing: two parts in order, one warning
C7_Witness ==
    /\ call.op = "generate_with_images"
    /\ call.arg.image_paths = <<"dog.JPG", "gone.gif", "cat.png">>
    /\ Len(sent) = 1
    /\ sent[1].contents =
           <<call.arg.prompt,
             [data |-> "jpg-bytes", mime_type |-> "image/jpeg"],
             [data |-> "png-bytes", mime_type |-> "image/png"]>>
    /\ warnings = <<"Warning: Image file gone.gif not found">>

\* A history of message dicts that each have a role and a content
WellFormed(h) == \A i \in 1..Len(h) : DOMAIN h[i] = {"role", "content"}

\* The turns h[0..n-2] in the remote service's representation
ExpectedSeed(h) ==
    [i \in 1..(Len(h) - 1) |->
        [role  |-> IF h[i].role = "user" THEN "user" ELSE "model",
         parts |-> <<[text |-> h[i].content]>>]]

\* C8: for every non-empty history h the chat session is started with
\* exactly the turns h[0..n-2], in order and with "user"/"model" roles, and,
\* once the session is there, exactly one message is sent to it: the content
\* of h[n-1].
C8_ChatSeedAndLastMessage ==
    (call.op = "chat_conversation" /\ call.arg # <<>> /\ WellFormed(call.arg))
        => /\ Len(sent) >= 1
           /\ sent[1].api = "start_chat"
           /\ sent[1].history = ExpectedSeed(call.arg)
           /\ replies[1].kind # "ok" => Len(sent) = 1
           /\ replies[1].kind = "ok"
                  => /\ Len(sent) = 2
                     /\ sent[2].api = "send_message"
                     /\ sent[2].history = ExpectedSeed(call.arg)
                     /\ sent[2].content = call.arg[Len(call.arg)].content

\* A three-turn history with a non-user, non-assistant role in the middle
C8_Witness ==
    /\ call.op = "chat_conversation"
    /\ call.arg = <<[role |-> "user", content |-> "hi"],
                    [role |-> "system", content |-> "be brief"],
                    [role |-> "user", content |-> "2+2?"]>>
    /\ Len(sent) = 2
    /\ sent[1].history[2].role = "model"
    /\ sent[2].content = "2+2?"

\* C9: chat_conversation always returns a string: the reply text when the
\* session started and the message was answered, and otherwise (a malformed
\* or empty history, a failed start or send, a reply without text) a string
\* starting with "Error in chat conversation: ".
C9_ChatReturnsTextOrError ==
    call.op = "chat_conversation"
        => /\ result.kind = "return"
           /\ result.type = "str"
           /\ IF /\ Len(replies) = 2
                 /\ replies[1].kind = "ok"
                 /\ replies[2].kind = "ok"
              THEN result.value = replies[2].text
              ELSE StartsWith(result.value, "Error in chat conversation: ")

\* An empty history came back as an error string
C9_Witness ==
    /\ call.op = "chat_conversation"
    /\ call.arg = <<>>
    /\ result = Return("Error in chat conversation: list index out of range")

-----------------------------------------------------------------------------
(* Properties of the dashboard *)

\* C10: once the Analyze Images handler is left, by a return or by an
\* exception, no temporary file it created exists.
C10_TempFilesRemoved ==
    call.op = "analyze_images" => \A p \in staged : ~exists(fs, p)

-----------------------------------------------------------------------------
(* Properties of the adapter, continued *)

\* C12: the active model changes only in a set_model call that returns;
\* generate_text, generate_with_images and chat_conversation leave it as it
\* was, whether the remote call replied or failed.  (self.models is assigned
\* in __init__ only: it is the definition models.)
C12_ModelChangesOnlyBySetModel ==
    [][/\ (model' # model) => (call'.op = "set_model" /\ result'.kind = "return")
       /\ (call'.op \in AdapterOps) => (model' = model)]_vars

\* A generation failed, and one succeeded, while the alternate model was
\* active: it still is
C12_Witness ==
    /\ call.op \in AdapterOps
    /\ replies # <<>>
    /\ replies[Len(replies)].kind = "raise"
    /\ model = GenerativeModel("gemini-2.0-flash-thinking-exp")

\* The requests that ask the remote model to generate
GenerationApis == {"generate_content", "send_message"}

\* C13: one invocation of generate_text, generate_with_images or
\* chat_conversation issues at most one generation request (for a chat, one
\* start_chat followed by at most one send_message), and no request follows
\* a request that failed.
C13_AtMostOneRequestNoRetry ==
    call.op \in AdapterOps =>
        /\ Len(replies) = Len(sent)
        /\ Cardinality({i \in 1..Len(sent) : sent[i].api \in GenerationApis}) <= 1
        /\ Cardinality({i \in 1..Len(sent) : sent[i].api = "start_chat"}) <= 1
        /\ \A i \in 1..Len(sent) :
               /\ sent[i].api = "start_chat" => (i = 1 /\ call.op = "chat_conversation")
               /\ sent[i].api = "send_message" => (i = 2 /\ sent[1].api = "start_chat")
               /\ replies[i].kind # "ok" => i = Len(sent)

\* A remote request failed and the operation returned its error string
\* after that single request
C13_Witness ==
    /\ call.op = "generate_text"
    /\ Len(sent) = 1
    /\ replies[1].kind = "raise"
    /\ result.kind = "return"
    /\ StartsWith(result.value, "Error generating text: ")

\* The spellings of each listed extension that end a path of the model
Spellings(extension) ==
    CASE extension = ".jpg"  -> {".jpg", ".JPG", ".Jpg"}
      [] extension = ".jpeg" -> {".jpeg", ".JPEG"}
      [] extension = ".png"  -> {".png", ".PNG", ".pNg"}
      [] extension = ".gif"  -> {".gif", ".GIF", ".giF"}
      [] extension = ".bmp"  -> {".bmp", ".BMP"}
      [] extension = ".webp" -> {".webp", ".WEBP", ".WebP"}

HasExtension(path, extension) ==
    \E spelling \in Spellings(extension) : EndsWith(path, spelling)

\* C16: the MIME type of a path is the one of its extension, whatever the
\* case it is written in: image/jpeg for .jpg and .jpeg, image/png for .png,
\* image/gif for .gif, image/bmp for .bmp, image/webp for .webp, and
\* image/jpeg for any other extension and for a path without extension.
C16_MimeTypeByExtension ==
    call.op = "_get_mime_type" =>
        result = Return(
            CASE HasExtension(call.arg, ".jpg")  -> "image/jpeg"
              [] HasExtension(call.arg, ".jpeg") -> "image/jpeg"
              [] HasExtension(call.arg, ".png")  -> "image/png"
              [] HasExtension(call.arg, ".gif")  -> "image/gif"
              [] HasExtension(call.arg, ".bmp")  -> "image/bmp"
              [] HasExtension(call.arg, ".webp") -> "image/webp"
              [] OTHER                           -> "image/jpeg")

\* A mixed-case extension after a directory whose name has a dot
C16_Witness ==
    /\ call.op = "_get_mime_type"
    /\ call.arg = "dir.v2/c.WebP"
    /\ result = Return("image/webp")

-----------------------------------------------------------------------------
(* Properties of the callers *)

\* The session start and the send that a history h asks of the model m
FreshSessionRequests(m, h) ==
    <<[api |-> "start_chat", model |-> m, history |-> ExpectedSeed(h)],
      [api |-> "send_message", model |-> m, history |-> ExpectedSeed(h),
       content |-> h[Len(h)].content]>>

\* C14: every chat_conversation call starts a session of its own, seeded
\* with the whole transcript it was given but the last message, and sends
\* that last message to it: what is requested is a function of the active
\* model and of the history alone, whatever calls the chat loop or the
\* dashboard session made before.
C14_FreshSessionFullReplay ==
    call.op = "chat_conversation" =>
        LET expected == FreshSessionRequests(model, call.arg) IN
        /\ Len(sent) \in {1, 2}
        /\ replies[1].kind = "ok" => Len(sent) = 2
        /\ \A i \in 1..Len(sent) :
               \A field \in DOMAIN expected[i] : sent[i][field] = expected[i][field]

\* The second call of one chat loop: the session is started again and the
\* first exchange is replayed
C14_Witness ==
    /\ program = "cli"
    /\ call.op = "chat_conversation"
    /\ Len(call.arg) = 3
    /\ Len(sent) = 2
    /\ sent[1].api = "start_chat"
    /\ Len(sent[1].history) = 2

\* C15: an exception of the SDK inside the constructor leaves the
\* constructor as that exception (it ends the CLI's main); in the dashboard
\* such a failure, and an empty project identifier, leave the session
\* without adapter; and a session without adapter runs no handler that
\* calls the adapter: the only step it can take is an initialization, and
\* it holds an adapter again only when that one succeeded.
C15_NoAdapterNoCalls ==
    [][/\ (call'.op = "main" /\ replies' # <<>> /\ replies'[1].kind = "raise")
            => /\ result' = Raise("Exception", replies'[1].text)
               /\ cli'.option = "exited"
       /\ (call'.op = "initialize_gemini"
               /\ (call'.arg = "" \/ replies'[1].kind = "raise"))
            => ~HasClient'
       /\ (program = "dashboard" /\ ~HasClient)
            => /\ call'.op \in {"idle", "initialize_gemini"}
               /\ HasClient' => (call'.arg # "" /\ replies'[1].kind = "ok")]_vars

\* A session that had chatted lost its adapter to a failed initialization
C15_Witness ==
    /\ program = "dashboard"
    /\ call.op = "initialize_gemini"
    /\ replies # <<>>
    /\ replies[1].kind = "raise"
    /\ ~HasClient
    /\ session_state.chat_history # <<>>

\* C18: in a dashboard session that holds an adapter, the model the
\* selector shows (st.session_state.current_model) is the adapter's active
\* model, after any sequence of initializations and model selections.
C18_CurrentModelIsActiveModel ==
    (program = "dashboard" /\ HasClient)
        => session_state.current_model = model.model_name

\* user, assistant, user, ...
Alternates(h) ==
    \A i \in 1..Len(h) :
        h[i].role = IF i % 2 = 1 THEN "user" ELSE "assistant"

\* C19: every history the CLI chat loop or the dashboard Send handler hands
\* to chat_conversation is non-empty, ends with a user message and
\* alternates user, assistant, user, ... from its first message, whatever
\* sends (answered or failed), Clear Chat clicks and re-entries into chat
\* mode came before.
C19_HistoriesAlternate ==
    call.op = "chat_conversation" =>
        /\ call.arg # <<>>
        /\ call.arg[Len(call.arg)].role = "user"
        /\ Alternates(call.arg)

\* The dashboard sends again after a send whose reply was an error string
C19_Witness ==
    /\ program = "dashboard"
    /\ call.op = "chat_conversation"
    /\ Len(call.arg) = 3
    /\ StartsWith(call.arg[2].content, "Error in chat conversation: ")

\* The numbers the Switch model option lists: 1..N for the N supported models
ListedNumbers == {"1", "2"}

\* C20: in the CLI's Switch model option, every input that is not the
\* number of a listed model prints "Invalid model selection" and leaves the
\* adapter's active model as it was.
C20_InvalidSelectionRejected ==
    [][(call'.op = "switch_model" /\ call'.arg \notin ListedNumbers)
        => /\ warnings' = <<"Invalid model selection">>
           /\ model' = model]_vars

\* The payload Analyze Images owes the remote service for a prompt and a
\* list of uploaded files
PayloadOfUploads(vision_prompt, uploaded_files) ==
    <<vision_prompt>>
    \o [i \in 1..Len(uploaded_files) |->
           Part_from_data(uploaded_files[i].data,
                          _get_mime_type(uploaded_files[i].name))]

\* C11: two dashboard sessions that run Analyze Images at the same time do
\* not affect each other: under every interleaving of their handlers, the
\* request of each session carries exactly the bytes of the images that
\* session uploaded, in order, also when both uploaded a file of the same
\* name.
C11_SessionsIsolated ==
    \A s \in Sessions :
        threads[s].sent # <<>> =>
            threads[s].sent[1].contents =
                PayloadOfUploads(threads[s].content_parts[1],
                                 threads[s].uploaded_files)

\* C17: for every list of uploaded files the dashboard hands to Analyze
\* Images, files of the same name included, the image parts of the payload
\* are the uploaded files one for one, in upload order, each with the bytes
\* of its own file.
C17_PartsAreTheUploads ==
    (call.op = "analyze_images" /\ sent # <<>>) =>
        sent[1].contents =
            PayloadOfUploads(call.arg.prompt, call.arg.uploaded_files)

\* A reference of the list exists and cannot be read
SomeUnreadable(files, image_paths) ==
    \E i \in 1..Len(image_paths) :
        exists(files, image_paths[i]) /\ files[image_paths[i]] = DIR

\* C21: when a file of the list exists and reading it fails,
\* generate_with_images issues no remote request and returns a string that
\* starts with "Error generating text with images: ": it neither raises nor
\* goes on with the images it had read.
C21_ReadFailureAbortsRequest ==
    (call.op = "generate_with_images"
        /\ SomeUnreadable(fs, call.arg.image_paths))
        => /\ sent = <<>>
           /\ replies = <<>>
           /\ result.kind = "return"
           /\ result.type = "str"
           /\ StartsWith(result.value, "Error generating text with images: ")

\* An image had been read when a directory was met: nothing was sent
C21_Witness ==
    /\ call.op = "generate_with_images"
    /\ call.arg.image_paths = <<"cat.png", "pics">>
    /\ sent = <<>>
    /\ result = Return("Error generating text with images: [Errno 21] Is a directory: 'pics'")

====
